---- MODULE Spec2Model ----
(***************************************************************************)
(* ytpd: a command-line downloader that drives an external media extractor *)
(* (yt-dlp) and an encoder (ffmpeg).  The model follows src/src/main.rs    *)
(* and src/src/setup.rs: dependency bootstrap, the interactive choices,    *)
(* the single-song path, the playlist resolver and the batch of tokio      *)
(* tasks gated by a 44-permit semaphore.                                   *)
(*                                                                         *)
(* Strings are sequences of tokens.  The batch's JoinHandles are a bag of  *)
(* task records: nothing the program computes from the vector of handles   *)
(* depends on its order (the tally is a pair of counts), and each record   *)
(* carries its own url, its own process outcome and its own call count.    *)
(* The audio format, the thumbnail choice and the download directory only  *)
(* select arguments of the extractor and are not part of the state.        *)
(*                                                                         *)
(* Spec is the whole program on small playlists; SpecCeiling, SpecFair and *)
(* SpecPermits are batches larger than the semaphore.  SpecInstall,        *)
(* SpecListing, SpecDownload and SpecSanitize look into one call each      *)
(* (install_ffmpeg, get_playlist_urls, download_song after its process     *)
(* exited, the three file-name regexes) with the environment's answer      *)
(* kept in the state.                                                      *)
(***************************************************************************)
EXTENDS Bags, FiniteSets, Integers, Sequences, TLC

VARIABLES
    pc,             \* position of main (and of check_dependencies inside it)
    platform,       \* the cfg! target the binary was built for
    workers,        \* worker threads of the #[tokio::main] runtime
    ffmpeg_path,    \* SetupConfig.ffmpeg_path: None or Some path
    yt_dlp_path,    \* SetupConfig.yt_dlp_path once resolved
    setup_result,   \* what check_dependencies returned
    url,            \* the URL given on the command line or typed in
    selection,      \* "Choose download type": 0 single song, 1 playlist
    single,         \* the single-song download_song call
    listing_calls,  \* listing invocations of the extractor so far
    playlist_urls,  \* Ok value of get_playlist_urls
    spawned,        \* iterations of the spawn loop so far
    tasks,          \* bag of spawned tasks (the handles)
    waiters,        \* FIFO wait queue of the semaphore
    semaphore,      \* permits available, or NoSem before Semaphore::new
    success_count,
    failure_count,
    log,            \* which user-facing messages were printed
    exit_code,      \* process exit status, or Alive
    \* the one call a function-level specification looks into (None elsewhere)
    output,         \* the std::process::Output a call was given
    host,           \* what the machine answers to install_ffmpeg's commands
    filename_str,   \* download_song: the file name the extractor printed
    new_filename,   \* download_song: the file name after the three regexes
    returned        \* what the call returned, with what it did on the way

vars == <<pc, platform, workers, ffmpeg_path, yt_dlp_path, setup_result,
          url, selection, single, listing_calls, playlist_urls, spawned,
          tasks, waiters, semaphore, success_count, failure_count, log,
          exit_code, output, host, filename_str, new_filename, returned>>

-----------------------------------------------------------------------------
(* Bounds of the model *)

\* longest listing output (in lines) the resolver is given in Spec
MaxLines == 3
\* most worker threads of the runtime in Spec
MaxWorkers == 2
\* SpecCeiling runs a batch of Permits + Over items on Permits + Over workers
Over == 1

(* Program constants *)

\* Semaphore::new(44)
Permits == 44

-----------------------------------------------------------------------------
(* Option<T>: None is the empty sequence, Some(x) the one-element sequence *)

None == <<>>
Some(x) == <<x>>
IsSome(o) == o # None

(* Strings are sequences of tokens; str::contains is a substring search *)

Contains(s, pat) ==
    \E i \in 0..(Len(s) - Len(pat)) :
        \A k \in 1..Len(pat) : s[i + k] = pat[k]

Platforms == {"linux", "macos", "windows"}

-----------------------------------------------------------------------------
(* setup.rs *)

RunResults == {"ok", "fail", "spawn_err"}

\* what the environment answers to check_ffmpeg's two commands
FfmpegEnvs == [which : RunResults, version : RunResults, utf8 : BOOLEAN]

FfmpegPath == <<"/usr/bin/", "ffmpeg">>

\* check_ffmpeg: Ok(path) only if the lookup and the version query both ran
\* and exited zero, and the lookup's output is UTF-8
check_ffmpeg(env) ==
    IF env.which # "ok" THEN [ok |-> FALSE, path |-> None]
    ELSE IF env.version # "ok" THEN [ok |-> FALSE, path |-> None]
    ELSE IF ~env.utf8 THEN [ok |-> FALSE, path |-> None]
    ELSE [ok |-> TRUE, path |-> Some(FfmpegPath)]

PackageManagers == <<"apt", "dnf", "pacman">>

\* what the environment answers to the installer: which package manager
\* commands can be run, how the install command ends, and the re-check
InstallEnvs ==
    [avail : SUBSET {"apt", "dnf", "pacman"},
     install : RunResults,
     recheck : FfmpegEnvs]

\* "not implemented yet": always an error
install_ffmpeg_windows(env) ==
    [ok |-> FALSE, path |-> None, pm |-> None]

\* pm is the package manager whose install command is issued
install_ffmpeg_macos(env) ==
    IF env.install = "spawn_err"
    THEN [ok |-> FALSE, path |-> None, pm |-> Some("brew")]
    ELSE IF env.install = "ok"
    THEN check_ffmpeg(env.recheck) @@ [pm |-> Some("brew")]
    ELSE [ok |-> FALSE, path |-> None, pm |-> Some("brew")]

\* FirstAvailable that probes the package managers from the last one on
FirstAvailable_Last(avail) ==
    IF \E i \in 1..Len(PackageManagers) : PackageManagers[i] \in avail
    THEN LET i == CHOOSE i \in 1..Len(PackageManagers) :
                    /\ PackageManagers[i] \in avail
                    /\ \A j \in (i + 1)..Len(PackageManagers) :
                         PackageManagers[j] \notin avail
         IN  Some(PackageManagers[i])
    ELSE None

\* the first of apt, dnf, pacman whose command can be run
FirstAvailable(avail) ==
    IF \E i \in 1..Len(PackageManagers) : PackageManagers[i] \in avail
    THEN LET i == CHOOSE i \in 1..Len(PackageManagers) :
                    /\ PackageManagers[i] \in avail
                    /\ \A j \in 1..(i - 1) : PackageManagers[j] \notin avail
         IN  Some(PackageManagers[i])
    ELSE None

install_ffmpeg_linux(env) ==
    LET pm == FirstAvailable(env.avail) IN
    IF pm = None THEN [ok |-> FALSE, path |-> None, pm |-> None]
    ELSE IF env.install = "spawn_err"
    THEN [ok |-> FALSE, path |-> None, pm |-> pm]
    ELSE IF env.install = "ok"
    THEN check_ffmpeg(env.recheck) @@ [pm |-> pm]
    ELSE [ok |-> FALSE, path |-> None, pm |-> pm]

install_ffmpeg(plat, env) ==
    IF plat = "windows" THEN install_ffmpeg_windows(env)
    ELSE IF plat = "macos" THEN install_ffmpeg_macos(env)
    ELSE install_ffmpeg_linux(env)

YtDlpPath(plat) ==
    IF plat = "windows" THEN <<"ytpd", "/", "yt-dlp", ".exe">>
    ELSE <<"ytpd", "/", "yt-dlp">>

\* what the environment answers to ensure_yt_dlp's filesystem and network calls
YtDlpEnvs ==
    [mkdir : BOOLEAN, exists : BOOLEAN, fetch : BOOLEAN, write : BOOLEAN,
     chmod : BOOLEAN]

\* ensure_yt_dlp: Ok(path) when the binary is there or was fetched, written
\* and (off Windows) made executable
ensure_yt_dlp(plat, env) ==
    IF ~env.mkdir THEN FALSE
    ELSE IF env.exists THEN TRUE
    ELSE IF ~env.fetch THEN FALSE
    ELSE IF ~env.write THEN FALSE
    ELSE IF plat # "windows" /\ ~env.chmod THEN FALSE
    ELSE TRUE

-----------------------------------------------------------------------------
(* main.rs: strings, the resolver and download_song *)

Host == "https://www.youtube.com/"

\* format!("https://www.youtube.com/watch?v={}", id)
WatchUrl(id) == <<Host, "watch", "?", "v=", id>>

\* the URLs a user may give: a song, a playlist page, a song inside a playlist
UserUrls ==
    { WatchUrl("a"),
      <<Host, "playlist", "?", "list=", "PL">>,
      <<Host, "watch", "?", "v=", "a", "&", "list=", "PL">> }

\* url.contains("playlist?list=")
is_playlist(u) == Contains(u, <<"playlist", "?", "list=">>)

\* a URL's query carries a list parameter
HasListParameter(u) ==
    \E i \in 2..Len(u) : u[i] = "list=" /\ u[i - 1] \in {"?", "&"}

Ids == {"a", "b"}

RECURSIVE SeqsUpTo(_, _)
SeqsUpTo(S, n) ==
    IF n = 0 THEN {<<>>}
    ELSE LET shorter == SeqsUpTo(S, n - 1) IN
         shorter \cup {Append(q, x) : q \in shorter, x \in S}

\* the lines a listing invocation may print: identifiers and empty lines
Listings == SeqsUpTo(Ids \cup {""}, MaxLines)

\* NonEmptyLines that collects the lines back to front
RECURSIVE NonEmptyLines_Reversed(_)
NonEmptyLines_Reversed(lines) ==
    IF lines = <<>> THEN <<>>
    ELSE IF Head(lines) = "" THEN NonEmptyLines_Reversed(Tail(lines))
    ELSE NonEmptyLines_Reversed(Tail(lines)) \o <<Head(lines)>>

RECURSIVE NonEmptyLines(_)
\* .lines().filter(|line| !line.is_empty())
NonEmptyLines(lines) ==
    IF lines = <<>> THEN <<>>
    ELSE IF Head(lines) = "" THEN NonEmptyLines(Tail(lines))
    ELSE <<Head(lines)>> \o NonEmptyLines(Tail(lines))

\* how a listing invocation may end
ListingRuns ==
    [run : RunResults, utf8 : BOOLEAN, lines : Listings]

\* get_playlist_urls without the urls.is_empty() check
get_playlist_urls_NoEmptyCheck(r) ==
    IF r.run = "spawn_err" THEN [ok |-> FALSE, urls |-> <<>>, msg |-> "io"]
    ELSE IF r.run = "fail"
    THEN [ok |-> FALSE, urls |-> <<>>, msg |-> "Failed to get playlist URLs"]
    ELSE IF ~r.utf8 THEN [ok |-> FALSE, urls |-> <<>>, msg |-> "utf8"]
    ELSE LET ids == NonEmptyLines(r.lines)
         IN  [ok |-> TRUE, urls |-> [k \in 1..Len(ids) |-> WatchUrl(ids[k])],
              msg |-> ""]

\* get_playlist_urls: Err when the invocation cannot be run, exits non-zero,
\* prints non-UTF-8, or yields no identifier; otherwise the watch URLs in order
get_playlist_urls(r) ==
    IF r.run = "spawn_err" THEN [ok |-> FALSE, urls |-> <<>>, msg |-> "io"]
    ELSE IF r.run = "fail"
    THEN [ok |-> FALSE, urls |-> <<>>, msg |-> "Failed to get playlist URLs"]
    ELSE IF ~r.utf8 THEN [ok |-> FALSE, urls |-> <<>>, msg |-> "utf8"]
    ELSE LET ids == NonEmptyLines(r.lines)
             urls == [k \in 1..Len(ids) |-> WatchUrl(ids[k])]
         IN  IF urls = <<>>
             THEN [ok |-> FALSE, urls |-> <<>>,
                   msg |-> "No URLs found in playlist"]
             ELSE [ok |-> TRUE, urls |-> urls, msg |-> ""]

\* how one extractor process may end once it runs: its exit status, what
\* became of the rename ("none": no rename attempted), and whether the failure
\* line could be written to standard output
ProcessEnds ==
    {[exit |-> "zero", rename |-> r, printed |-> TRUE] :
        r \in {"none", "ok", "failed"}}
    \cup {[exit |-> "nonzero", rename |-> "-", printed |-> p] : p \in BOOLEAN}

\* Command::output()? failed: no process ran
SpawnError == [exit |-> "spawn_err", rename |-> "-", printed |-> TRUE]

\* DownloadResult that swallows the rename's error
DownloadResult_IgnoreRename(end) ==
    IF end.exit = "spawn_err" THEN "Err"
    ELSE IF end.exit = "zero" THEN "Ok"
    ELSE IF end.printed THEN "Err" ELSE "Panic"

\* download_song's value, from the way its process ended: Ok on a zero exit
\* unless a rename failed; Err otherwise; println! panics when the write fails
DownloadResult(end) ==
    IF end.exit = "spawn_err" THEN "Err"
    ELSE IF end.exit = "zero"
    THEN IF end.rename = "failed" THEN "Err" ELSE "Ok"
    ELSE IF end.printed THEN "Err" ELSE "Panic"

-----------------------------------------------------------------------------
(* download_song once the process has exited, in detail: main.rs:140-173 *)

\* what \s and str::trim take for whitespace
Whitespace == {" ", "\n"}

\* index of the first occurrence of pat in s, if any
Find(s, pat) ==
    LET hits == {i \in 1..(Len(s) - Len(pat) + 1) :
                    \A k \in 1..Len(pat) : s[i + k - 1] = pat[k]}
    IN  IF hits = {} THEN None
        ELSE Some(CHOOSE i \in hits : \A j \in hits : i <= j)

\* re_artist.replace(filename_str, ""): ^.*? -  matches lazily from the start
\* of the name through the first " - " (. does not match a line break) and is
\* replaced once
re_artist(s) ==
    LET at == Find(s, <<" ", "-", " ">>)
    IN  IF at = None \/ \E k \in 1..(at[1] - 1) : s[k] = "\n" THEN s
        ELSE SubSeq(s, at[1] + 3, Len(s))

\* first index of the run of whitespace that ends right before index i
RunStart(s, i) ==
    CHOOSE a \in 1..i :
        /\ \A k \in a..(i - 1) : s[k] \in Whitespace
        /\ a = 1 \/ s[a - 1] \notin Whitespace

\* re_prod with Regex::replace in place of replace_all
re_prod_Once(s) ==
    LET open == Find(s, <<"(">>)
        close == IF open = None THEN None
                 ELSE Find(SubSeq(s, open[1] + 1, Len(s)), <<")">>)
    IN  IF open = None \/ close = None THEN s
        ELSE SubSeq(s, 1, RunStart(s, open[1]) - 1)
             \o SubSeq(s, open[1] + close[1] + 1, Len(s))

\* re_prod.replace_all(.., ""): every \s*\([^)]*\), leftmost first: optional
\* whitespace, "(", anything up to the next ")"
RECURSIVE re_prod(_)
re_prod(s) ==
    LET open == Find(s, <<"(">>)
        close == IF open = None THEN None
                 ELSE Find(SubSeq(s, open[1] + 1, Len(s)), <<")">>)
    IN  IF open = None \/ close = None THEN s
        ELSE SubSeq(s, 1, RunStart(s, open[1]) - 1)
             \o re_prod(SubSeq(s, open[1] + close[1] + 1, Len(s)))

\* length of the run of whitespace s starts with
RunLen(s) ==
    CHOOSE n \in 0..Len(s) :
        /\ \A k \in 1..n : s[k] \in Whitespace
        /\ n = Len(s) \/ s[n + 1] \notin Whitespace

\* re_spaces.replace_all(.., "."): every \s+\. becomes "."
RECURSIVE re_spaces(_)
re_spaces(s) ==
    IF s = <<>> THEN s
    ELSE LET n == RunLen(s) IN
         IF n = 0 THEN <<Head(s)>> \o re_spaces(Tail(s))
         ELSE IF n < Len(s) /\ s[n + 1] = "."
         THEN <<".">> \o re_spaces(SubSeq(s, n + 2, Len(s)))
         ELSE SubSeq(s, 1, n) \o re_spaces(SubSeq(s, n + 1, Len(s)))

\* new_filename, from filename_str: the three replacements in order
Sanitize(name) == re_spaces(re_prod(re_artist(name)))

\* String::from_utf8(output.stdout) of the lines a process printed
RECURSIVE Text(_)
Text(lines) ==
    IF lines = <<>> THEN <<>>
    ELSE Head(lines) \o <<"\n">> \o Text(Tail(lines))

\* str::trim
RECURSIVE Trim(_)
Trim(s) ==
    IF s = <<>> THEN s
    ELSE IF Head(s) \in Whitespace THEN Trim(Tail(s))
    ELSE IF s[Len(s)] \in Whitespace THEN Trim(SubSeq(s, 1, Len(s) - 1))
    ELSE s

\* index of the last "/" of a path, if any
LastSlash(p) ==
    LET at == {i \in 1..Len(p) : p[i] = "/"}
    IN  IF at = {} THEN None ELSE Some(CHOOSE i \in at : \A j \in at : j <= i)

\* Path::parent and Path::file_name of a path that does not end in "/"
Parent(p) ==
    IF LastSlash(p) = None THEN <<>> ELSE SubSeq(p, 1, LastSlash(p)[1] - 1)
FileName(p) ==
    IF LastSlash(p) = None THEN p ELSE SubSeq(p, LastSlash(p)[1] + 1, Len(p))

\* Path::join
Join(dir, name) == IF dir = <<>> THEN name ELSE dir \o <<"/">> \o name

\* how the two fs::rename calls may go
RenameEnvs == {"ok", "first_failed", "second_failed"}

\* the Option fields of download_song's record when no path was read
NoPath == [filepath |-> None, filename_str |-> None, new_filename |-> None]

\* the path read from standard output, split and sanitized
ReadPath(out) ==
    LET filepath == Trim(Text(out.stdout)) IN
    [filepath |-> Some(filepath),
     filename_str |-> Some(FileName(filepath)),
     new_filename |-> Some(Sanitize(FileName(filepath)))]

\* download_song that renames without comparing path and new_path
download_song_AlwaysRename(out, fs, printed) ==
    IF out.status = "zero"
    THEN IF out.utf8 /\ Trim(Text(out.stdout)) # <<>>
         THEN LET filepath == Trim(Text(out.stdout))
                  new_path == Join(Parent(filepath),
                                   Sanitize(FileName(filepath)))
                  first == <<filepath, new_path>>
                  second == <<new_path, new_path>>
              IN  IF fs = "first_failed"
                  THEN [read |-> ReadPath(out), renames |-> <<first>>,
                        result |-> "Err"]
                  ELSE [read |-> ReadPath(out), renames |-> <<first, second>>,
                        result |-> IF fs = "ok" THEN "Ok" ELSE "Err"]
         ELSE [read |-> NoPath, renames |-> <<>>, result |-> "Ok"]
    ELSE [read |-> NoPath, renames |-> <<>>,
          result |-> IF printed THEN "Err" ELSE "Panic"]

\* download_song from the Output of its process on: the value returned, the
\* path read from standard output and the fs::rename calls made, in order
download_song(out, fs, printed) ==
    IF out.status = "zero"
    THEN IF out.utf8 /\ Trim(Text(out.stdout)) # <<>>
         THEN LET filepath == Trim(Text(out.stdout))
                  new_path == Join(Parent(filepath),
                                   Sanitize(FileName(filepath)))
                  first == <<filepath, new_path>>
                  second == <<new_path, new_path>>
              IN  IF filepath = new_path
                  THEN [read |-> ReadPath(out), renames |-> <<>>,
                        result |-> "Ok"]
                  ELSE IF fs = "first_failed"
                  THEN [read |-> ReadPath(out), renames |-> <<first>>,
                        result |-> "Err"]
                  ELSE [read |-> ReadPath(out), renames |-> <<first, second>>,
                        result |-> IF fs = "ok" THEN "Ok" ELSE "Err"]
         ELSE [read |-> NoPath, renames |-> <<>>, result |-> "Ok"]
    ELSE [read |-> NoPath, renames |-> <<>>,
          result |-> IF printed THEN "Err" ELSE "Panic"]

-----------------------------------------------------------------------------
(* State *)

NoEnd == [exit |-> "-", rename |-> "-", printed |-> TRUE]

\* a task::spawn-ed future that has not been polled yet
NewTask(u) ==
    [url |-> u, st |-> "queued", calls |-> 0, end |-> NoEnd, result |-> "-"]

setup_vars == <<platform, ffmpeg_path, yt_dlp_path, setup_result>>
choice_vars == <<url, selection>>
batch_vars == <<playlist_urls, spawned, tasks, waiters, semaphore,
                success_count, failure_count>>
call_vars == <<output, host, filename_str, new_filename, returned>>

\* no call is being looked into
NoCall ==
    /\ output = None
    /\ host = None
    /\ filename_str = None
    /\ new_filename = None
    /\ returned = None

\* the program's variables other than pc and the call under study
main_vars == <<platform, workers, ffmpeg_path, yt_dlp_path, setup_result,
               url, selection, single, listing_calls, playlist_urls, spawned,
               tasks, waiters, semaphore, success_count, failure_count, log,
               exit_code>>

\* main has not done anything yet
NotStarted ==
    /\ platform = "linux"
    /\ workers = 1
    /\ ffmpeg_path = None
    /\ yt_dlp_path = None
    /\ setup_result = "none"
    /\ url = <<>>
    /\ selection = None
    /\ single = NewTask(<<>>)
    /\ listing_calls = 0
    /\ playlist_urls = <<>>
    /\ spawned = 0
    /\ tasks = EmptyBag
    /\ waiters = <<>>
    /\ semaphore = None
    /\ success_count = 0
    /\ failure_count = 0
    /\ log = {}
    /\ exit_code = None

Init ==
    /\ pc = "check_ffmpeg"
    /\ platform \in Platforms
    /\ workers \in 1..MaxWorkers
    /\ ffmpeg_path = None
    /\ yt_dlp_path = None
    /\ setup_result = "none"
    /\ url = <<>>
    /\ selection = None
    /\ single = NewTask(<<>>)
    /\ listing_calls = 0
    /\ playlist_urls = <<>>
    /\ spawned = 0
    /\ tasks = EmptyBag
    /\ waiters = <<>>
    /\ semaphore = None
    /\ success_count = 0
    /\ failure_count = 0
    /\ log = {}
    /\ exit_code = None
    /\ NoCall

\* the process ends with status n
Exit(n) ==
    /\ exit_code' = Some(n)
    /\ pc' = "exited"

-----------------------------------------------------------------------------
(* check_dependencies *)

CheckFfmpeg ==
    /\ pc = "check_ffmpeg"
    /\ \E env \in FfmpegEnvs :
         LET r == check_ffmpeg(env) IN
         IF r.ok
         THEN /\ ffmpeg_path' = r.path
              /\ pc' = "check_yt_dlp"
         ELSE /\ ffmpeg_path' = ffmpeg_path
              /\ pc' = "ffmpeg_prompt"
    /\ UNCHANGED <<platform, workers, yt_dlp_path, setup_result, choice_vars,
                   single, listing_calls, batch_vars, log, exit_code>>

\* show_ffmpeg_install_instructions: 0 goes on to the installer, 1 and 2 end
\* the process with std::process::exit(1)
ShowInstructions ==
    /\ pc = "ffmpeg_prompt"
    /\ \E sel \in 0..2 :
         IF sel = 0
         THEN /\ pc' = "install_ffmpeg"
              /\ UNCHANGED <<log, exit_code>>
         ELSE /\ log' = log \cup {IF sel = 1 THEN "manual instructions"
                                  ELSE "Exiting program"}
              /\ Exit(1)
    /\ UNCHANGED <<setup_vars, workers, choice_vars, single, listing_calls,
                   batch_vars>>

\* install_ffmpeg().await on a machine that answers as one of envs, and what
\* check_dependencies does with its result
InstallFfmpegIn(envs) ==
    /\ pc = "install_ffmpeg"
    /\ \E env \in envs :
         LET r == install_ffmpeg(platform, env) IN
         IF r.ok
         THEN /\ ffmpeg_path' = r.path
              /\ pc' = "check_yt_dlp"
              /\ UNCHANGED setup_result
         ELSE /\ ffmpeg_path' = ffmpeg_path
              /\ setup_result' = "Err"
              /\ pc' = "setup_returned"
    /\ UNCHANGED <<platform, workers, yt_dlp_path, choice_vars, single,
                   listing_calls, batch_vars, log, exit_code>>

\* InstallFfmpeg that goes on without an encoder when the installer fails
InstallFfmpeg_FallThrough ==
    /\ pc = "install_ffmpeg"
    /\ \E env \in InstallEnvs :
         ffmpeg_path' = install_ffmpeg(platform, env).path
    /\ pc' = "check_yt_dlp"
    /\ UNCHANGED <<platform, workers, yt_dlp_path, setup_result, choice_vars,
                   single, listing_calls, batch_vars, log, exit_code>>

InstallFfmpeg == InstallFfmpegIn(InstallEnvs)

CheckYtDlp ==
    /\ pc = "check_yt_dlp"
    /\ \E exists \in BOOLEAN, env \in YtDlpEnvs :
         IF exists \/ ensure_yt_dlp(platform, env)
         THEN /\ yt_dlp_path' = Some(YtDlpPath(platform))
              /\ setup_result' = "Ok"
         ELSE /\ yt_dlp_path' = yt_dlp_path
              /\ setup_result' = "Err"
    /\ pc' = "setup_returned"
    /\ UNCHANGED <<platform, workers, ffmpeg_path, choice_vars, single,
                   listing_calls, batch_vars, log, exit_code>>

-----------------------------------------------------------------------------
(* main, up to the download *)

\* match check_dependencies().await: on Err print and return from main
MainSetupResult ==
    /\ pc = "setup_returned"
    /\ IF setup_result = "Err"
       THEN /\ log' = log \cup {"Setup failed"}
            /\ Exit(0)
       ELSE /\ pc' = "get_download_directory"
            /\ UNCHANGED <<log, exit_code>>
    /\ UNCHANGED <<setup_vars, workers, choice_vars, single, listing_calls,
                   batch_vars>>

\* get_download_directory().expect(..): a failed create_dir_all panics
GetDownloadDirectory ==
    /\ pc = "get_download_directory"
    /\ \E sel \in 0..1, created \in BOOLEAN :
         IF sel = 0 /\ ~created
         THEN Exit(101)
         ELSE /\ pc' = "read_url"
              /\ UNCHANGED exit_code
    /\ UNCHANGED <<setup_vars, workers, choice_vars, single, listing_calls,
                   batch_vars, log>>

ReadUrl ==
    /\ pc = "read_url"
    /\ \E u \in UserUrls : url' = u
    /\ pc' = "choose_type"
    /\ UNCHANGED <<setup_vars, workers, selection, single,
                   listing_calls, batch_vars, log, exit_code>>

\* ChooseType that tests the wrong menu entry
ChooseType_WrongEntry ==
    /\ pc = "choose_type"
    /\ \E sel \in 0..1 :
         /\ selection' = Some(sel)
         /\ IF sel = 1 /\ is_playlist(url)
            THEN /\ log' = log \cup {"Error: This is a playlist/album URL"}
                 /\ Exit(0)
            ELSE /\ pc' = (IF sel = 0 THEN "single" ELSE "playlist")
                 /\ UNCHANGED <<log, exit_code>>
    /\ UNCHANGED <<setup_vars, workers, url, single, listing_calls,
                   batch_vars>>

\* "Choose download type"; single song on a playlist URL prints the error and
\* returns.  The format and thumbnail prompts that follow only pick arguments.
ChooseType ==
    /\ pc = "choose_type"
    /\ \E sel \in 0..1 :
         /\ selection' = Some(sel)
         /\ IF sel = 0 /\ is_playlist(url)
            THEN /\ log' = log \cup {"Error: This is a playlist/album URL"}
                 /\ Exit(0)
            ELSE /\ pc' = (IF sel = 0 THEN "single" ELSE "playlist")
                 /\ UNCHANGED <<log, exit_code>>
    /\ UNCHANGED <<setup_vars, workers, url, single,
                   listing_calls, batch_vars>>

-----------------------------------------------------------------------------
(* The single-song download: download_song awaited on main's own thread *)

\* ffmpeg_path.unwrap() panics on None; Command::output()? is the one call
SingleStart ==
    /\ pc = "single"
    /\ IF ffmpeg_path = None
       THEN /\ Exit(101)
            /\ UNCHANGED <<single, log>>
       ELSE \E started \in BOOLEAN :
              IF started
              THEN /\ single' = [NewTask(url) EXCEPT !.st = "running",
                                                      !.calls = @ + 1]
                   /\ pc' = "single_running"
                   /\ UNCHANGED <<log, exit_code>>
              ELSE /\ single' = [NewTask(url) EXCEPT
                                    !.st = "done", !.calls = @ + 1,
                                    !.end = SpawnError,
                                    !.result = DownloadResult(SpawnError)]
                   /\ log' = log \cup {"Download failed"}
                   /\ Exit(0)
    /\ UNCHANGED <<setup_vars, workers, choice_vars, listing_calls,
                   batch_vars>>

SingleExit ==
    /\ pc = "single_running"
    /\ \E end \in ProcessEnds :
         LET res == DownloadResult(end) IN
         /\ single' = [single EXCEPT !.st = "done", !.end = end,
                                     !.result = res]
         /\ IF res = "Panic"
            THEN /\ Exit(101)
                 /\ UNCHANGED log
            ELSE /\ log' = log \cup {IF res = "Ok" THEN "Download completed!"
                                     ELSE "Download failed"}
                 /\ Exit(0)
    /\ UNCHANGED <<setup_vars, workers, choice_vars, listing_calls,
                   batch_vars>>

-----------------------------------------------------------------------------
(* Playlist mode: the resolver, the spawn loop, the tasks, the tally *)

\* get_playlist_urls(..).await and, on Ok, the set-up of the batch: the
\* semaphore and setup_config.ffmpeg_path.unwrap()
ResolvePlaylist(runs) ==
    /\ pc = "playlist"
    /\ listing_calls' = listing_calls + 1
    /\ \E r \in runs :
         LET res == get_playlist_urls(r) IN
         IF ~res.ok
         THEN /\ log' = log \cup {"Failed to get playlist URLs", res.msg}
              /\ Exit(0)
              /\ UNCHANGED <<playlist_urls, semaphore>>
         ELSE IF ffmpeg_path = None
         THEN /\ Exit(101)
              /\ UNCHANGED <<playlist_urls, semaphore, log>>
         ELSE /\ playlist_urls' = res.urls
              /\ semaphore' = Some(Permits)
              /\ pc' = "spawn_loop"
              /\ UNCHANGED <<log, exit_code>>
    /\ UNCHANGED <<setup_vars, workers, choice_vars, single, spawned, tasks,
                   waiters, success_count, failure_count>>

\* for url in playlist_urls.iter() { handles.push(task::spawn(..)) }
Spawn ==
    /\ pc = "spawn_loop"
    /\ spawned < Len(playlist_urls)
    /\ tasks' = tasks (+) SetToBag({NewTask(playlist_urls[spawned + 1])})
    /\ spawned' = spawned + 1
    /\ UNCHANGED <<pc, setup_vars, workers, choice_vars, single,
                   listing_calls, playlist_urls, waiters, semaphore,
                   success_count, failure_count, log, exit_code>>

RECURSIVE Copies(_, _)
\* how many tasks of bag b are among the records S
Copies(b, S) ==
    IF S = {} THEN 0
    ELSE LET t == CHOOSE t \in S : TRUE
         IN  CopiesIn(t, b) + Copies(b, S \ {t})

CountSt(b, st) == Copies(b, {t \in BagToSet(b) : t.st = st})

\* tasks inside Command::output(): each blocks the worker thread it runs on
InFlight == CountSt(tasks, "running")

\* tasks that hold a permit
Holders == CountSt(tasks, "granted") + CountSt(tasks, "running")

Move(b, old, new) == (b (-) SetToBag({old})) (+) SetToBag({new})

\* Release that never wakes a waiter: the permit only becomes available
Release_NoWake(b, avail) ==
    /\ tasks' = b
    /\ waiters' = waiters
    /\ semaphore' = Some(avail + 1)

\* dropping a permit: the semaphore hands it to the first waiter in its
\* queue, or counts it as available when nobody waits
Release(b, avail) ==
    IF waiters # <<>>
    THEN LET w == [NewTask(Head(waiters)) EXCEPT !.st = "waiting"] IN
         /\ tasks' = Move(b, w, [w EXCEPT !.st = "granted"])
         /\ waiters' = Tail(waiters)
         /\ semaphore' = Some(avail)
    ELSE /\ tasks' = b
         /\ waiters' = waiters
         /\ semaphore' = Some(avail + 1)

\* PollTask without the admission gate: the process is started whether or
\* not a permit is available
PollTask_NoGate(starts) ==
    /\ pc = "spawn_loop"
    /\ InFlight < workers
    /\ \E t \in BagToSet(tasks) :
         /\ t.st \in {"queued", "granted"}
         /\ tasks' = Move(tasks, t, [t EXCEPT !.st = "running",
                                                !.calls = @ + 1])
    /\ UNCHANGED <<pc, setup_vars, workers, choice_vars, single,
                   listing_calls, playlist_urls, spawned, waiters, semaphore,
                   success_count, failure_count, log, exit_code>>

\* a worker thread polls a task: sem.acquire().await either yields a permit
\* or parks the task in the semaphore's queue; with the permit download_song
\* runs on, up to the blocking Command::output()
PollTask(starts) ==
    /\ pc = "spawn_loop"
    /\ InFlight < workers
    /\ \E t \in BagToSet(tasks) :
         /\ t.st \in {"queued", "granted"}
         /\ IF t.st = "queued" /\ semaphore[1] = 0
            THEN /\ tasks' = Move(tasks, t, [t EXCEPT !.st = "waiting"])
                 /\ waiters' = Append(waiters, t.url)
                 /\ UNCHANGED semaphore
            ELSE LET avail == IF t.st = "queued" THEN semaphore[1] - 1
                              ELSE semaphore[1]
                 IN  \E started \in starts :
                       IF started
                       THEN /\ tasks' = Move(tasks, t,
                                   [t EXCEPT !.st = "running",
                                             !.calls = @ + 1])
                            /\ semaphore' = Some(avail)
                            /\ UNCHANGED waiters
                       ELSE Release(
                              Move(tasks, t,
                                   [t EXCEPT
                                      !.st = "done", !.calls = @ + 1,
                                      !.end = SpawnError,
                                      !.result = DownloadResult(SpawnError)]),
                              avail)
    /\ UNCHANGED <<pc, setup_vars, workers, choice_vars, single,
                   listing_calls, playlist_urls, spawned, success_count,
                   failure_count, log, exit_code>>

\* TaskExit with a retry: a process that exited non-zero is run once more
TaskExit_Retry(ends) ==
    /\ pc = "spawn_loop"
    /\ \E t \in BagToSet(tasks) :
         /\ t.st = "running"
         /\ \E end \in ends :
              IF end.exit = "nonzero" /\ t.calls < 2
              THEN /\ tasks' = Move(tasks, t, [t EXCEPT !.calls = @ + 1])
                   /\ UNCHANGED <<waiters, semaphore>>
              ELSE Release(Move(tasks, t,
                                [t EXCEPT !.st = "done", !.end = end,
                                          !.result = DownloadResult(end)]),
                           semaphore[1])
    /\ UNCHANGED <<pc, setup_vars, workers, choice_vars, single,
                   listing_calls, playlist_urls, spawned, success_count,
                   failure_count, log, exit_code>>

\* TaskExit in which a panicking task takes its permit with it
TaskExit_PanicLeaks(ends) ==
    /\ pc = "spawn_loop"
    /\ \E t \in BagToSet(tasks) :
         /\ t.st = "running"
         /\ \E end \in ends :
              LET done == Move(tasks, t,
                               [t EXCEPT !.st = "done", !.end = end,
                                         !.result = DownloadResult(end)])
              IN  IF DownloadResult(end) = "Panic"
                  THEN /\ tasks' = done
                       /\ UNCHANGED <<waiters, semaphore>>
                  ELSE Release(done, semaphore[1])
    /\ UNCHANGED <<pc, setup_vars, workers, choice_vars, single,
                   listing_calls, playlist_urls, spawned, success_count,
                   failure_count, log, exit_code>>

\* a task's extractor process exits: download_song returns or panics, the
\* task ends and its _permit is dropped
TaskExit(ends) ==
    /\ pc = "spawn_loop"
    /\ \E t \in BagToSet(tasks) :
         /\ t.st = "running"
         /\ \E end \in ends :
              Release(Move(tasks, t,
                           [t EXCEPT !.st = "done", !.end = end,
                                     !.result = DownloadResult(end)]),
                      semaphore[1])
    /\ UNCHANGED <<pc, setup_vars, workers, choice_vars, single,
                   listing_calls, playlist_urls, spawned, success_count,
                   failure_count, log, exit_code>>

\* Successes that takes every result but Ok(Err(_)) for a success
Successes_NotErr(b) == Copies(b, {t \in BagToSet(b) : t.result # "Err"})

\* Ok(Ok(_)) => success_count += 1
Successes(b) == Copies(b, {t \in BagToSet(b) : t.result = "Ok"})

\* Failures that counts Ok(Err(_)) only and drops a failed join
Failures_ErrOnly(b) == Copies(b, {t \in BagToSet(b) : t.result = "Err"})

\* _ => failure_count += 1
Failures(b) == Copies(b, {t \in BagToSet(b) : t.result # "Ok"})

\* AllJoined that gives up at the first failure, as try_join_all would
AllJoined_FirstFailure ==
    \/ /\ spawned = Len(playlist_urls)
       /\ \A t \in BagToSet(tasks) : t.st = "done"
    \/ \E t \in BagToSet(tasks) : t.st = "done" /\ t.result # "Ok"

\* join_all(handles).await completes when every handle has
AllJoined ==
    /\ spawned = Len(playlist_urls)
    /\ \A t \in BagToSet(tasks) : t.st = "done"

\* join_all, the tally loop and the final line
JoinAndTally ==
    /\ pc = "spawn_loop"
    /\ AllJoined
    /\ success_count' = Successes(tasks)
    /\ failure_count' = Failures(tasks)
    /\ log' = log \cup {"Playlist download completed!"}
    /\ Exit(0)
    /\ UNCHANGED <<setup_vars, workers, choice_vars, single, listing_calls,
                   playlist_urls, spawned, tasks, waiters, semaphore>>

-----------------------------------------------------------------------------
(* Specifications *)

Next ==
    \/ CheckFfmpeg /\ UNCHANGED call_vars
    \/ ShowInstructions /\ UNCHANGED call_vars
    \/ InstallFfmpeg /\ UNCHANGED call_vars
    \/ CheckYtDlp /\ UNCHANGED call_vars
    \/ MainSetupResult /\ UNCHANGED call_vars
    \/ GetDownloadDirectory /\ UNCHANGED call_vars
    \/ ReadUrl /\ UNCHANGED call_vars
    \/ ChooseType /\ UNCHANGED call_vars
    \/ SingleStart /\ UNCHANGED call_vars
    \/ SingleExit /\ UNCHANGED call_vars
    \/ ResolvePlaylist(ListingRuns) /\ UNCHANGED call_vars
    \/ Spawn /\ UNCHANGED call_vars
    \/ PollTask(BOOLEAN) /\ UNCHANGED call_vars
    \/ TaskExit(ProcessEnds) /\ UNCHANGED call_vars
    \/ JoinAndTally /\ UNCHANGED call_vars

Spec == Init /\ [][Next]_vars

\* A batch larger than the semaphore, on a runtime with more worker threads
\* than permits (and, for contrast, with a single one): the state after
\* ResolvePlaylist returned a playlist that lists one video Permits + Over
\* times.  Every process of this batch can be run; it exits zero with nothing
\* to rename, or non-zero.
CeilingEnds ==
    {[exit |-> "zero", rename |-> "none", printed |-> TRUE],
     [exit |-> "nonzero", rename |-> "-", printed |-> TRUE]}

InitCeiling ==
    /\ pc = "spawn_loop"
    /\ platform = "linux"
    /\ workers \in {1, Permits + Over}
    /\ ffmpeg_path = Some(FfmpegPath)
    /\ yt_dlp_path = Some(YtDlpPath("linux"))
    /\ setup_result = "Ok"
    /\ url = <<Host, "playlist", "?", "list=", "PL">>
    /\ selection = Some(1)
    /\ single = NewTask(<<>>)
    /\ listing_calls = 1
    /\ playlist_urls = [k \in 1..(Permits + Over) |-> WatchUrl("a")]
    /\ spawned = 0
    /\ tasks = EmptyBag
    /\ waiters = <<>>
    /\ semaphore = Some(Permits)
    /\ success_count = 0
    /\ failure_count = 0
    /\ log = {}
    /\ exit_code = None
    /\ NoCall

NextCeiling ==
    \/ Spawn /\ UNCHANGED call_vars
    \/ PollTask({TRUE}) /\ UNCHANGED call_vars
    \/ TaskExit(CeilingEnds) /\ UNCHANGED call_vars
    \/ JoinAndTally /\ UNCHANGED call_vars

SpecCeiling == InitCeiling /\ [][NextCeiling]_vars

\* Batches below and above the semaphore's size under fair scheduling: the
\* spawn loop goes on, a task that a free worker thread can poll is polled, a
\* process that runs exits, and main is resumed once join_all is ready.
\* The exit status plays no part in what a task does with its permit; every
\* process of these batches exits zero.
FairEnds == {[exit |-> "zero", rename |-> "none", printed |-> TRUE]}

InitFair ==
    /\ pc = "spawn_loop"
    /\ platform = "linux"
    /\ workers \in {1, Permits + Over}
    /\ ffmpeg_path = Some(FfmpegPath)
    /\ yt_dlp_path = Some(YtDlpPath("linux"))
    /\ setup_result = "Ok"
    /\ url = <<Host, "playlist", "?", "list=", "PL">>
    /\ selection = Some(1)
    /\ single = NewTask(<<>>)
    /\ listing_calls = 1
    /\ playlist_urls \in {[k \in 1..n |-> WatchUrl("a")] :
                            n \in {MaxLines, Permits + Over}}
    /\ spawned = 0
    /\ tasks = EmptyBag
    /\ waiters = <<>>
    /\ semaphore = Some(Permits)
    /\ success_count = 0
    /\ failure_count = 0
    /\ log = {}
    /\ exit_code = None
    /\ NoCall

NextFair ==
    \/ Spawn /\ UNCHANGED call_vars
    \/ PollTask({TRUE}) /\ UNCHANGED call_vars
    \/ TaskExit(FairEnds) /\ UNCHANGED call_vars
    \/ JoinAndTally /\ UNCHANGED call_vars

Fairness ==
    /\ WF_vars(Spawn /\ UNCHANGED call_vars)
    /\ WF_vars(PollTask({TRUE}) /\ UNCHANGED call_vars)
    /\ WF_vars(TaskExit(FairEnds) /\ UNCHANGED call_vars)
    /\ WF_vars(JoinAndTally /\ UNCHANGED call_vars)

SpecFair == InitFair /\ [][NextFair]_vars /\ Fairness

-----------------------------------------------------------------------------
(* The permits of a batch larger than the semaphore, whatever way tasks end *)

\* a download that succeeds, one that fails and one whose task panics
PermitEnds ==
    {[exit |-> "zero", rename |-> "none", printed |-> TRUE],
     [exit |-> "nonzero", rename |-> "-", printed |-> TRUE],
     [exit |-> "nonzero", rename |-> "-", printed |-> FALSE]}

\* the spawn loop has pushed all Permits + Over handles and no task has been
\* polled yet
InitPermits ==
    /\ pc = "spawn_loop"
    /\ platform = "linux"
    /\ workers = Permits + Over
    /\ ffmpeg_path = Some(FfmpegPath)
    /\ yt_dlp_path = Some(YtDlpPath("linux"))
    /\ setup_result = "Ok"
    /\ url = <<Host, "playlist", "?", "list=", "PL">>
    /\ selection = Some(1)
    /\ single = NewTask(<<>>)
    /\ listing_calls = 1
    /\ playlist_urls = [k \in 1..(Permits + Over) |-> WatchUrl("a")]
    /\ spawned = Permits + Over
    /\ tasks = [t \in {NewTask(WatchUrl("a"))} |-> Permits + Over]
    /\ waiters = <<>>
    /\ semaphore = Some(Permits)
    /\ success_count = 0
    /\ failure_count = 0
    /\ log = {}
    /\ exit_code = None
    /\ NoCall

NextPermits ==
    \/ PollTask({TRUE}) /\ UNCHANGED call_vars
    \/ TaskExit(PermitEnds) /\ UNCHANGED call_vars
    \/ JoinAndTally /\ UNCHANGED call_vars

SpecPermits == InitPermits /\ [][NextPermits]_vars

-----------------------------------------------------------------------------
(* check_dependencies on a machine whose answers to the installer are fixed *)

InitInstall ==
    /\ pc = "check_ffmpeg"
    /\ platform \in Platforms
    /\ workers = 1
    /\ ffmpeg_path = None
    /\ yt_dlp_path = None
    /\ setup_result = "none"
    /\ url = <<>>
    /\ selection = None
    /\ single = NewTask(<<>>)
    /\ listing_calls = 0
    /\ playlist_urls = <<>>
    /\ spawned = 0
    /\ tasks = EmptyBag
    /\ waiters = <<>>
    /\ semaphore = None
    /\ success_count = 0
    /\ failure_count = 0
    /\ log = {}
    /\ exit_code = None
    /\ output = None
    /\ host \in {Some(env) : env \in InstallEnvs}
    /\ filename_str = None
    /\ new_filename = None
    /\ returned = None

\* InstallFfmpeg on host, keeping what install_ffmpeg returned
InstallOnHost ==
    /\ InstallFfmpegIn({host[1]})
    /\ returned' = Some(install_ffmpeg(platform, host[1]))
    /\ UNCHANGED <<output, host, filename_str, new_filename>>

NextInstall ==
    \/ CheckFfmpeg /\ UNCHANGED call_vars
    \/ ShowInstructions /\ UNCHANGED call_vars
    \/ InstallOnHost
    \/ CheckYtDlp /\ UNCHANGED call_vars
    \/ MainSetupResult /\ UNCHANGED call_vars

SpecInstall == InitInstall /\ [][NextInstall]_vars

-----------------------------------------------------------------------------
(* The file-name regexes on their own *)

\* longest file name, in tokens, drawn from Alphabet
MaxName == 5

\* a word and the characters the three regexes look for
Alphabet == {"a", " ", "-", "(", ")", "."}

ArtistSong ==
    <<"Artist", " ", "-", " ", "Song", " ", "Title", " ",
      "(", "Official", " ", "Video", ")", ".", "mp3">>
SongTitle == <<"Song", " ", "Title", ".", "mp3">>
SongOnly == <<"Song", " ", "Only", ".", "mp3">>
TwoTags ==
    <<"A", " ", "-", " ", "B", " ", "(", "x", ")", " ", "(", "y", ")",
      ".", "mp3">>
TwoSeparators == <<"A", " ", "-", " ", "B", " ", "-", " ", "C", ".", "mp3">>

\* the file names the regexes are given
Names ==
    SeqsUpTo(Alphabet, MaxName)
    \cup {ArtistSong, SongOnly, TwoTags, TwoSeparators}

InitSanitize ==
    /\ pc = "sanitize"
    /\ NotStarted
    /\ output = None
    /\ host = None
    /\ filename_str \in {Some(n) : n \in Names}
    /\ new_filename = None
    /\ returned = None

\* main.rs:148-155 on filename_str
SanitizeName ==
    /\ pc = "sanitize"
    /\ new_filename' = Some(Sanitize(filename_str[1]))
    /\ pc' = "sanitized"
    /\ UNCHANGED <<main_vars, output, host, filename_str, returned>>

\* the same lines on the name they produced
SanitizeAgain ==
    /\ pc = "sanitized"
    /\ filename_str' = new_filename
    /\ new_filename' = Some(Sanitize(new_filename[1]))
    /\ pc' = "sanitized_again"
    /\ UNCHANGED <<main_vars, output, host, returned>>

NextSanitize ==
    \/ SanitizeName
    \/ SanitizeAgain

SpecSanitize == InitSanitize /\ [][NextSanitize]_vars

-----------------------------------------------------------------------------
(* One download_song call from the Output of its process on *)

\* most lines the extractor prints in SpecDownload
MaxStdout == 2

Dir == <<"/", "music">>

\* a line of the extractor's standard output: a file path, or nothing
StdoutLines == {<<>>} \cup {Join(Dir, f) : f \in {ArtistSong, SongOnly, TwoTags}}

Outputs ==
    [status : {"zero", "nonzero"}, utf8 : BOOLEAN,
     stdout : SeqsUpTo(StdoutLines, MaxStdout)]

InitDownload ==
    /\ pc = "download_song"
    /\ NotStarted
    /\ output \in {Some(o) : o \in Outputs}
    /\ host = None
    /\ filename_str = None
    /\ new_filename = None
    /\ returned = None

\* main.rs:140-173
DownloadSong ==
    /\ pc = "download_song"
    /\ \E fs \in RenameEnvs, printed \in BOOLEAN :
         LET r == download_song(output[1], fs, printed) IN
         /\ returned' = Some(r)
         /\ filename_str' = r.read.filename_str
         /\ new_filename' = r.read.new_filename
    /\ pc' = "download_returned"
    /\ UNCHANGED <<main_vars, output, host>>

NextDownload ==
    \/ DownloadSong

SpecDownload == InitDownload /\ [][NextDownload]_vars

-----------------------------------------------------------------------------
(* A playlist run from the listing invocation's Output on *)

\* set-up succeeded, a playlist URL was given and "Playlist" chosen; what the
\* listing invocation will answer is fixed in output
InitListing ==
    /\ pc = "playlist"
    /\ platform = "linux"
    /\ workers \in 1..MaxWorkers
    /\ ffmpeg_path = Some(FfmpegPath)
    /\ yt_dlp_path = Some(YtDlpPath("linux"))
    /\ setup_result = "Ok"
    /\ url = <<Host, "playlist", "?", "list=", "PL">>
    /\ selection = Some(1)
    /\ single = NewTask(<<>>)
    /\ listing_calls = 0
    /\ playlist_urls = <<>>
    /\ spawned = 0
    /\ tasks = EmptyBag
    /\ waiters = <<>>
    /\ semaphore = None
    /\ success_count = 0
    /\ failure_count = 0
    /\ log = {}
    /\ exit_code = None
    /\ output \in {Some(r) : r \in ListingRuns}
    /\ host = None
    /\ filename_str = None
    /\ new_filename = None
    /\ returned = None

NextListing ==
    \/ ResolvePlaylist({output[1]}) /\ UNCHANGED call_vars
    \/ Spawn /\ UNCHANGED call_vars
    \/ PollTask({TRUE}) /\ UNCHANGED call_vars
    \/ TaskExit(CeilingEnds) /\ UNCHANGED call_vars
    \/ JoinAndTally /\ UNCHANGED call_vars

SpecListing == InitListing /\ [][NextListing]_vars

-----------------------------------------------------------------------------
(* Properties *)

TallyReported == "Playlist download completed!" \in log

\* the item's own extractor exited zero and its own rename, if any, succeeded
OwnSuccess(t) == t.end.exit = "zero" /\ t.end.rename # "failed"

Results(b, res) == Copies(b, {t \in BagToSet(b) : t.result = res})

\* every spawned task has ended, each after exactly one process call
AllRanOnce ==
    /\ spawned = Len(playlist_urls)
    /\ BagCardinality(tasks) = Len(playlist_urls)
    /\ \A t \in BagToSet(tasks) : t.st = "done" /\ t.calls = 1

\* C1: in a batch of any size, at most 44 extractor processes are in flight
\* at once, and every process in flight belongs to a task that took a permit
\* out of the semaphore: the processes in flight never outnumber the permits
\* that are not available.
C1_ConcurrencyCeiling ==
    semaphore # None =>
        /\ InFlight <= Permits
        /\ InFlight <= Permits - semaphore[1]
        /\ semaphore[1] >= 0

\* C1 witness: 44 processes are in flight and a further task is parked in the
\* semaphore's queue
C1_Witness ==
    /\ InFlight = Permits
    /\ CountSt(tasks, "waiting") > 0
    /\ Len(playlist_urls) > Permits

\* C2: when the tally is reported, success_count + failure_count is the
\* number of items of the batch, whatever mix of successes, failures and
\* panics the items ended with.
C2_TallyCoversBatch ==
    TallyReported => success_count + failure_count = Len(playlist_urls)

\* C2 witness: a tally over a batch in which one item succeeded, one returned
\* an error and one panicked
C2_Witness ==
    /\ TallyReported
    /\ Results(tasks, "Ok") > 0
    /\ Results(tasks, "Err") > 0
    /\ Results(tasks, "Panic") > 0

\* C3: an item's result is Ok exactly when its own process exited zero and
\* its own rename did not fail; the tally counts exactly those items as
\* successes and all others as failures, and every item was started, whatever
\* became of its siblings.
C3_OwnOutcomeOnly ==
    /\ \A t \in BagToSet(tasks) :
         t.st = "done" => (t.result = "Ok" <=> OwnSuccess(t))
    /\ TallyReported =>
         /\ success_count =
              Copies(tasks, {t \in BagToSet(tasks) : OwnSuccess(t)})
         /\ failure_count =
              Copies(tasks, {t \in BagToSet(tasks) : ~OwnSuccess(t)})
         /\ \A t \in BagToSet(tasks) : t.calls = 1

\* C3 witness: a tally in which one item's rename failed, a sibling exited
\* non-zero and another sibling succeeded
C3_Witness ==
    /\ TallyReported
    /\ success_count > 0
    /\ \E t \in BagToSet(tasks) : t.end.rename = "failed"
    /\ \E t \in BagToSet(tasks) : t.end.exit = "nonzero"

\* C4: the tally is reported only when every url has been spawned and every
\* task has ended; none is still queued, waiting for a permit or running.
C4_TallyAfterAllTasks ==
    TallyReported =>
        /\ spawned = Len(playlist_urls)
        /\ CountSt(tasks, "done") = Len(playlist_urls)

\* C4 witness: a tally over a batch of several items of which one failed
C4_Witness ==
    /\ TallyReported
    /\ Len(playlist_urls) > 1
    /\ failure_count > 0
    /\ success_count > 0

\* C5: a task whose join fails is counted as a failure, once, and not as a
\* success, and the other tasks still end: with panicked tasks in the batch
\* the tally has every panicked and every Err task, and no other, in
\* failure_count, has only the Ok tasks in success_count, and is reported
\* with all tasks ended after one process call each.
C5_PanicCountsAsFailure ==
    (TallyReported /\ Results(tasks, "Panic") > 0) =>
        /\ failure_count = Results(tasks, "Panic") + Results(tasks, "Err")
        /\ success_count = Results(tasks, "Ok")
        /\ AllRanOnce

\* C5 witness: a tally over a batch in which one task panicked and another
\* returned Ok
C5_Witness ==
    /\ TallyReported
    /\ Results(tasks, "Panic") = 1
    /\ Results(tasks, "Ok") > 0
    /\ failure_count = 1

\* some invocation of the extractor has happened
ExtractorInvoked ==
    \/ listing_calls > 0
    \/ single.calls > 0
    \/ \E t \in BagToSet(tasks) : t.calls > 0

\* C6: the extractor is invoked only after check_dependencies returned Ok,
\* an Ok result carries both paths (the encoder path is Some), the paths are
\* there whenever a download or a listing is about to start, and after an Err
\* result nothing is ever invoked.
C6_NoDownloadWithoutSetup ==
    /\ ExtractorInvoked => setup_result = "Ok"
    /\ setup_result = "Ok" => IsSome(ffmpeg_path) /\ IsSome(yt_dlp_path)
    /\ pc \in {"single", "single_running", "playlist", "spawn_loop"} =>
         setup_result = "Ok" /\ IsSome(ffmpeg_path)
    /\ setup_result = "Err" => ~ExtractorInvoked /\ tasks = EmptyBag

\* C6 witness: a batch task's download is running, with both tools resolved
C6_Witness ==
    /\ \E t \in BagToSet(tasks) : t.st = "running"
    /\ setup_result = "Ok"
    /\ IsSome(ffmpeg_path)

\* the run ended in a setup failure
SetupFailed ==
    \/ setup_result = "Err"
    \/ "manual instructions" \in log
    \/ "Exiting program" \in log

\* C7: a run that ends in a setup failure (check_dependencies returned an
\* error, or the user chose the manual instructions or to exit) ends with a
\* non-zero exit status.
C7_SetupFailureExitsNonZero ==
    (pc = "exited" /\ SetupFailed) => exit_code # Some(0)

\* C8 as stated: single-song mode on any URL whose query carries a list
\* parameter starts no download.
C8_ListParameterRejected ==
    (selection = Some(0) /\ HasListParameter(url)) => single.calls = 0

\* C8 amended: single-song mode on a URL that contains "playlist?list="
\* prints the error and ends the run; no download, listing or task is started.
C8_PlaylistPageRejected ==
    (selection = Some(0) /\ is_playlist(url)) =>
        /\ pc = "exited"
        /\ "Error: This is a playlist/album URL" \in log
        /\ single.calls = 0
        /\ listing_calls = 0
        /\ tasks = EmptyBag

\* C8 witness: single-song mode was chosen for a playlist page URL
C8_Witness ==
    /\ selection = Some(0)
    /\ is_playlist(url)
    /\ exit_code = Some(0)

\* the resolver returned an error
ResolveFailed == "Failed to get playlist URLs" \in log

\* C9: the resolver never returns an empty success: a batch is only set up
\* over at least one url; and when the resolver fails (non-zero exit, or no
\* identifier in the output) the run ends with no task spawned and no tally.
C9_NoEmptyPlaylist ==
    /\ semaphore # None => Len(playlist_urls) > 0
    /\ TallyReported => Len(playlist_urls) > 0
    /\ ResolveFailed =>
         /\ pc = "exited"
         /\ semaphore = None
         /\ spawned = 0
         /\ tasks = EmptyBag
         /\ ~TallyReported

\* C9 witness: the listing exited zero without any identifier
C9_Witness ==
    /\ "No URLs found in playlist" \in log
    /\ pc = "exited"

\* C10: the download process of an item is invoked at most once, and exactly
\* once by the time the batch or the single-song run is over; there is one
\* task per item and one result per task.
C10_InvokedOnce ==
    /\ single.calls <= 1
    /\ BagCardinality(tasks) = spawned
    /\ spawned <= Len(playlist_urls)
    /\ \A t \in BagToSet(tasks) :
         /\ t.calls <= 1
         /\ t.st \in {"running", "done"} <=> t.calls = 1
         /\ t.st = "done" <=> t.result \in {"Ok", "Err", "Panic"}
    /\ TallyReported => AllRanOnce
    /\ single.st = "done" => single.calls = 1
    /\ (log \cap {"Download completed!", "Download failed"}) # {} =>
         single.st = "done" /\ single.calls = 1

\* C10 witness: a batch is over in which an item failed, and was not run again
C10_Witness ==
    /\ TallyReported
    /\ \E t \in BagToSet(tasks) : t.end.exit = "nonzero" /\ t.calls = 1
    /\ Len(playlist_urls) > 1

\* C11: a download fails when its extractor exited non-zero, and also when it
\* exited zero but printed nothing, or bytes that are not text, for a path
C11_UnparsedPathFails ==
    pc = "download_returned" =>
        /\ output[1].status = "nonzero" =>
             returned[1].result \in {"Err", "Panic"}
        /\ output[1].status = "zero"
             /\ (~output[1].utf8 \/ output[1].stdout = <<>>) =>
             returned[1].result = "Err"

\* C12: once the extractor exited zero and a path was read from its output,
\* fs::rename is called exactly when the sanitized file name differs from the
\* printed one; the rename goes from the printed path to the sanitized name in
\* the printed path's directory, and nothing else is renamed
C12_RenameIffChanged ==
    (pc = "download_returned" /\ output[1].status = "zero"
        /\ returned[1].read.filepath # None) =>
        LET r == returned[1]
            path == r.read.filepath[1]
            new_path == Join(Parent(path), new_filename[1])
        IN  /\ filename_str = Some(FileName(path))
            /\ r.renames # <<>> <=> new_filename # filename_str
            /\ r.renames # <<>> => r.renames[1] = <<path, new_path>>
            /\ \A k \in 2..Len(r.renames) : r.renames[k] = <<new_path, new_path>>
            /\ r.renames = <<>> => r.result = "Ok"

\* C12 witness: "Artist - Song Title (Official Video).mp3" was printed and
\* renamed to "Song Title.mp3" next to it
C12_Witness ==
    /\ pc = "download_returned"
    /\ output[1].stdout = <<Join(Dir, ArtistSong)>>
    /\ returned[1].result = "Ok"
    /\ Len(returned[1].renames) = 2
    /\ returned[1].renames[1] = <<Join(Dir, ArtistSong), Join(Dir, SongTitle)>>

\* C13: sanitizing a sanitized name changes nothing
C13_Idempotent ==
    pc = "sanitized_again" => new_filename = filename_str

\* s has whitespace right before a "."
SpaceBeforeDot(s) ==
    \E i \in 2..Len(s) : s[i] = "." /\ s[i - 1] \in Whitespace

\* s has a parenthetical span: a "(" with a ")" somewhere after it
HasSpan(s) ==
    \E i, j \in 1..Len(s) : i < j /\ s[i] = "(" /\ s[j] = ")"

\* C14: the three rules in order turn "Artist - Song Title (Official
\* Video).mp3" into "Song Title.mp3" and "A - B (x) (y).mp3" into "B.mp3",
\* leave "Song Only.mp3" and every name without " - ", "(" or whitespace
\* before a dot as it is, and leave no parenthetical span and no whitespace
\* before a dot in any name
C14_SanitizerRules ==
    pc = "sanitized" =>
        LET s == filename_str[1]
            n == new_filename[1]
        IN  /\ s = ArtistSong => n = SongTitle
            /\ s = SongOnly => n = SongOnly
            /\ s = TwoTags => n = <<"B", ".", "mp3">>
            /\ (~Contains(s, <<" ", "-", " ">>) /\ ~Contains(s, <<"(">>)
                  /\ ~SpaceBeforeDot(s)) => n = s
            /\ ~HasSpan(n)
            /\ ~SpaceBeforeDot(n)

\* C14 witness: "A - B (x) (y).mp3" lost its prefix and both annotations
C14_Witness ==
    /\ pc = "sanitized"
    /\ filename_str = Some(TwoTags)
    /\ new_filename = Some(<<"B", ".", "mp3">>)

\* the last non-empty line of the lines printed, if any
RECURSIVE LastNonEmpty(_)
LastNonEmpty(lines) ==
    IF lines = <<>> THEN None
    ELSE IF lines[Len(lines)] # <<>> THEN Some(lines[Len(lines)])
    ELSE LastNonEmpty(SubSeq(lines, 1, Len(lines) - 1))

\* C15: after a zero exit the path that is sanitized and renamed is the last
\* non-empty line of standard output, whatever was printed before it
C15_LastLineOnly ==
    (pc = "download_returned" /\ output[1].status = "zero"
        /\ output[1].utf8) =>
        returned[1].read.filepath = LastNonEmpty(output[1].stdout)

\* position, among the lines printed, of the k-th line that is not empty
KthNonEmpty(lines, k) ==
    CHOOSE i \in 1..Len(lines) :
        /\ lines[i] # ""
        /\ Cardinality({j \in 1..i : lines[j] # ""}) = k

\* C16: once the resolver returned Ok, playlist_urls holds one watch URL per
\* non-empty line of the listing output, the k-th URL built from the k-th
\* non-empty line, and the tasks spawned so far are those of the first
\* `spawned` URLs of that sequence
C16_ListingOrder ==
    semaphore # None =>
        LET lines == output[1].lines
            n == Cardinality({i \in 1..Len(lines) : lines[i] # ""})
        IN  /\ Len(playlist_urls) = n
            /\ \A k \in 1..n :
                 playlist_urls[k] = WatchUrl(lines[KthNonEmpty(lines, k)])
            /\ BagCardinality(tasks) = spawned
            /\ \A k \in 1..n :
                 Copies(tasks, {t \in BagToSet(tasks) :
                                   t.url = playlist_urls[k]})
                 = Cardinality({j \in 1..spawned :
                                   playlist_urls[j] = playlist_urls[k]})

\* C16 witness: the listing printed "b", an empty line and "a"; the resolver
\* returned the URLs of b and a, and the first task spawned is that of b
C16_Witness ==
    /\ pc = "spawn_loop"
    /\ output[1].lines = <<"b", "", "a">>
    /\ playlist_urls = <<WatchUrl("b"), WatchUrl("a")>>
    /\ spawned = 1
    /\ BagCardinality(tasks) = 1
    /\ \A t \in BagToSet(tasks) : t.url = WatchUrl("b")

\* C17: while fewer than 44 downloads are in flight, a spawned task that has
\* not started its process yet can start it: no process has to exit first
C17_StartsBelowCeiling ==
    (pc = "spawn_loop" /\ InFlight < Permits
        /\ \E t \in BagToSet(tasks) : t.st = "queued") =>
        ENABLED PollTask(BOOLEAN)

\* every item of the batch has been spawned, has run and has ended
AllFinished ==
    /\ spawned = Len(playlist_urls)
    /\ BagCardinality(tasks) = Len(playlist_urls)
    /\ \A t \in BagToSet(tasks) : t.st = "done" /\ t.calls = 1

\* C18: when every process that is started exits and scheduling is fair,
\* every task of the batch gets a permit, runs and ends, and the tally is
\* reported; and the tally is not reported while a task has yet to end, so a
\* process that never exits keeps it from being reported for ever
C18_BatchTerminates ==
    /\ <>(TallyReported /\ AllFinished)
    /\ [](TallyReported => AllFinished)

\* C18 witness: the tally of a batch larger than the semaphore was reported
C18_Witness ==
    /\ TallyReported
    /\ AllFinished
    /\ Len(playlist_urls) > Permits
    /\ semaphore = Some(Permits)

\* C19: the permits tasks hold and the permits available add up to 44 at all
\* times: a task holds one exactly while it is granted or running and gives
\* it back when it ends as Ok, Err or Panic; the tasks parked in the queue are
\* the waiting ones, and at the tally all 44 permits are available
C19_PermitsConserved ==
    semaphore # None =>
        /\ Holders + semaphore[1] = Permits
        /\ semaphore[1] \in 0..Permits
        /\ Len(waiters) = CountSt(tasks, "waiting")
        /\ waiters # <<>> => semaphore[1] = 0
        /\ TallyReported => semaphore = Some(Permits) /\ waiters = <<>>

\* C19 witness: a batch larger than the semaphore, in which some download
\* succeeded, some failed and some task panicked, has all permits back
C19_Witness ==
    /\ TallyReported
    /\ semaphore = Some(Permits)
    /\ BagCardinality(tasks) > Permits
    /\ \A res \in {"Ok", "Err", "Panic"} :
         \E t \in BagToSet(tasks) : t.result = res

\* check_ffmpeg, run on the answers env, finds the encoder: the path lookup
\* and the version query both succeed
EncoderFound(env) ==
    env.which = "ok" /\ env.version = "ok" /\ env.utf8

\* C20: the installer, reached when the encoder check failed and automatic
\* installation was chosen, issues the install command of apt if apt can be
\* run, else of dnf, else of pacman on Linux and of Homebrew on macOS; it
\* returns Ok exactly when that command exits successfully and the encoder
\* check succeeds afterwards; otherwise, as when no package manager can be
\* run, check_dependencies returns an error and main reports "Setup failed"
C20_InstallerOrder ==
    (returned # None /\ platform # "windows") =>
        LET env == host[1]
            r == returned[1]
            expected ==
                IF platform = "macos" THEN Some("brew")
                ELSE IF "apt" \in env.avail THEN Some("apt")
                ELSE IF "dnf" \in env.avail THEN Some("dnf")
                ELSE IF "pacman" \in env.avail THEN Some("pacman")
                ELSE None
        IN  /\ r.pm = expected
            /\ r.ok <=> (r.pm # None /\ env.install = "ok"
                         /\ EncoderFound(env.recheck))
            /\ r.ok => ffmpeg_path = Some(FfmpegPath)
            /\ ~r.ok =>
                 /\ ffmpeg_path = None
                 /\ setup_result = "Err"
                 /\ pc \in {"setup_returned", "exited"}
                 /\ pc = "exited" => "Setup failed" \in log

\* C20 witness: on a Linux machine without apt, the dnf install succeeded and
\* the encoder was found afterwards
C20_Witness ==
    /\ platform = "linux"
    /\ returned # None
    /\ host[1].avail = {"dnf", "pacman"}
    /\ returned[1].pm = Some("dnf")
    /\ returned[1].ok
    /\ ffmpeg_path = Some(FfmpegPath)

====
